---- MODULE Spec2Model ----
(***************************************************************************)
(* Capture session coordinator of src/server/main.js.                      *)
(*                                                                         *)
(* The server runs on Node's single-threaded event loop: a handler runs    *)
(* without interruption up to its next await on real I/O, and the          *)
(* continuation of an await on a promise resolved inside a handler runs    *)
(* (as a microtask) before any other event is delivered.  Each action      *)
(* below is one such uninterrupted run: an HTTP command up to its first    *)
(* I/O await, the delivery of one subprocess event to all its listeners    *)
(* (in registration order) plus the continuations it resolves, one timer   *)
(* callback, or the completion of one awaited I/O operation.               *)
(*                                                                         *)
(* The document store is connected (videosCollection is defined); a write  *)
(* is applied when the awaited updateOne/insertOne completes.              *)
(*                                                                         *)
(* Spec is the coordinator, with uploadFile and checkDeviceAccess seen     *)
(* through their outcome.  HelperSpec runs updateNotes, checkDeviceAccess  *)
(* and uploadFile on their own, one awaited call at a time, over every     *)
(* stored collection, with the coordinator at rest.                        *)
(***************************************************************************)
EXTENDS Naturals, FiniteSets, Sequences

\* ------------------------------------------------------------------ bounds
\* startCapture calls that pass the check at the top (each has its own
\* recordingId, Session record and recording subprocess)
MaxCaptures == 2
\* accepted startPreview calls (each launches one preview subprocess)
MaxPreviews == 2
\* stopPreview calls that pass the check at the top
MaxStopPreviews == 2
\* accepted POST /api/capture/stop calls (stopCapture passed its check)
MaxStops == 2

\* HTTP commands accepted in one run (all four kinds together)
MaxCommands == 3

\* the helper functions (updateNotes, checkDeviceAccess, uploadFile) taken on their own:
\* invocations in one run (all three kinds together)
MaxHelperCalls == 2
\* updateNotes invocations
MaxNotesCalls == 2
\* recordingIds a helper function can be called with
MaxRecordingIds == 2
\* distinct note texts, beside the empty one
MaxNotes == 1
\* milliseconds the clock can advance to
MaxNow == 3
\* largest maxRetries checkDeviceAccess is called with (the default, line 131, is 3)
MaxRetries == 4

Captures == 1..MaxCaptures
NotesCalls == 1..MaxNotesCalls
RecordingIds == 1..MaxRecordingIds
NoteTexts == 0..MaxNotes
Previews == 1..MaxPreviews
StopPreviews == 1..MaxStopPreviews
Stops == 1..MaxStops

VARIABLES
    captureState,    \* the captureState object (null is 0)
    previewProcs,    \* lifecycle of each preview ffmpeg command
    ffmpegProcs,     \* lifecycle of each recording ffmpeg command
    captureCalls,    \* startCapture invocations: position, the stopPreview awaited,
                     \* and what the call found (sawPreview, wasPreviewing)
    stopPreviewCalls,\* stopPreview invocations: resolved flag, timer, caller
    stopCalls,       \* POST /api/capture/stop handlers (with their stopCapture)
    ffmpegHandlers,  \* the async 'end'/'error' handlers registered by startCapture
    videos,          \* the videos collection, by recordingId
    uploadCalls,     \* uploadFile invocations, by recordingId
    captureEnded,    \* 'captureEnded' emissions, by recordingId
    notifications,   \* the other io.emit calls, counted per event name and subject
    uploadMethod,    \* UPLOAD_METHOD, fixed when the server starts
    now,             \* new Date(), in milliseconds
    videosCollection,\* the documents the helper functions work on, by recordingId
    notesCalls,      \* updateNotes invocations
    deviceCheck,     \* the checkDeviceAccess invocation
    upload,          \* the uploadFile invocation
    helperCalls      \* helper function invocations so far

\* the coordinator's state
coordinatorVars ==
    <<captureState, previewProcs, ffmpegProcs, captureCalls, stopPreviewCalls,
      stopCalls, ffmpegHandlers, videos, uploadCalls, captureEnded, notifications>>

\* the state of the helper functions taken on their own, and the configuration
helperVars == <<uploadMethod, now, videosCollection, notesCalls, deviceCheck, upload,
                helperCalls>>

vars == <<coordinatorVars, helperVars>>

\* ------------------------------------------------------------------ state
\* let captureState = {...}; previewStopping and stopRequested start undefined (falsy)
InitCaptureState ==
    [isCapturing |-> FALSE, isPreviewing |-> FALSE, currentRecording |-> 0,
     ffmpegProcess |-> 0, previewProcess |-> 0,
     previewStopping |-> FALSE, stopRequested |-> FALSE]

NoVideo == [status |-> "none", endTimeSets |-> 0, uploadedToRemote |-> FALSE]

\* nothing emitted yet: 'previewStopped' per stopPreview call, 'previewError' per preview
\* subprocess, 'captureError', 'uploadComplete' and 'uploadError' per recordingId; log
\* is the order in which the finalizations of a recordingId emitted their events
NoNotifications ==
    [previewStopped |-> [k \in StopPreviews |-> 0],
     previewError |-> [p \in Previews |-> 0],
     captureError |-> [i \in Captures |-> 0],
     uploadComplete |-> [i \in Captures |-> 0],
     uploadError |-> [i \in Captures |-> 0],
     log |-> [i \in Captures |-> <<>>]]

\* io.emit(name, ...) about subject x
Emit(n, name, x) == [n EXCEPT ![name][x] = @ + 1]

\* the events `names` about recordingId x are emitted in this order
Logged(n, x, names) == [n EXCEPT !.log[x] = @ \o names]

\* UploadThenEnded with 'captureEnded' emitted first
EndedThenUpload(ok) == <<"captureEnded", IF ok THEN "uploadComplete" ELSE "uploadError">>

\* what a finalization emits once its upload has settled: 'uploadComplete' (lines 420,
\* 654) or 'uploadError' (lines 429, 663), then 'captureEnded' (lines 433, 668)
UploadThenEnded(ok) == <<IF ok THEN "uploadComplete" ELSE "uploadError", "captureEnded">>

CoordinatorInit ==
    /\ captureState = InitCaptureState
    /\ previewProcs = [p \in Previews |-> "none"]
    /\ ffmpegProcs = [i \in Captures |-> "none"]
    /\ captureCalls = [i \in Captures |-> [pc |-> "none", awaits |-> 0, sawPreview |-> 0,
                                              wasPreviewing |-> FALSE]]
    /\ stopPreviewCalls = [k \in StopPreviews |->
                             [st |-> "none", proc |-> 0, timer |-> FALSE, caller |-> 0,
                              resets |-> 0]]
    /\ stopCalls = [k \in Stops |->
                      [pc |-> "none", recordingId |-> 0, proc |-> 0, timer |-> FALSE,
                       uploadOk |-> FALSE, settles |-> 0]]
    /\ ffmpegHandlers = [i \in Captures |-> [pc |-> "none", uploadOk |-> FALSE,
                                                duringStop |-> FALSE]]
    /\ videos = [i \in Captures |-> NoVideo]
    /\ uploadCalls = [i \in Captures |-> 0]
    /\ captureEnded = [i \in Captures |-> 0]
    /\ notifications = NoNotifications

\* const UPLOAD_METHOD = process.env.UPLOAD_METHOD || 'sftp' (line 49); "local" stands
\* for every value that is neither 'sftp' nor 's3'
UploadMethods == {"sftp", "s3", "local"}

\* whether uploadFile goes to a remote backend (lines 492-495)
RemoteMethod(method) == method \in {"sftp", "s3"}

\* how `await uploadFile(...)` can settle: the local branch (lines 496-500) never throws
UploadOutcomes(method) == IF RemoteMethod(method) THEN BOOLEAN ELSE {TRUE}

\* the next unused index of a table (0 when the bound is reached)
FreeIn(S, used) == IF S \ used = {} THEN 0 ELSE CHOOSE x \in S \ used : \A y \in S \ used : x <= y

FreePreview == FreeIn(Previews, {p \in Previews : previewProcs[p] # "none"})
FreeCapture == FreeIn(Captures, {i \in Captures : captureCalls[i].pc # "none"})
FreeStopPreview == FreeIn(StopPreviews, {k \in StopPreviews : stopPreviewCalls[k].st # "none"})
FreeStop == FreeIn(Stops, {k \in Stops : stopCalls[k].pc # "none"})

Alive(st) == st \in {"spawned", "running"}

\* the commands accepted so far: every startPreview, startCapture and stop route, and
\* the stopPreview calls of the HTTP route (caller 0)
CommandsIssued ==
    Cardinality({p \in Previews : previewProcs[p] # "none"})
    + Cardinality({i \in Captures : captureCalls[i].pc # "none"})
    + Cardinality({k \in StopPreviews : stopPreviewCalls[k].st # "none"
                                         /\ stopPreviewCalls[k].caller = 0})
    + Cardinality({k \in Stops : stopCalls[k].pc # "none"})

MoreCommands == CommandsIssued < MaxCommands

\* ------------------------------------------------------------------ preview
\* startPreview's check (line 163)
StartPreviewRejects == captureState.isPreviewing \/ captureState.isCapturing

\* POST /api/preview/start -> startPreview(): the check, previewStopping = false,
\* a new ffmpeg command stored in previewProcess and run.  isPreviewing is not
\* touched here: the 'start' listener sets it.
StartPreview ==
    /\ ~StartPreviewRejects
    /\ FreePreview # 0
    /\ MoreCommands
    /\ captureState' = [captureState EXCEPT !.previewStopping = FALSE,
                                            !.previewProcess = FreePreview]
    /\ previewProcs' = [previewProcs EXCEPT ![FreePreview] = "spawned"]
    /\ UNCHANGED notifications
    /\ UNCHANGED <<ffmpegProcs, captureCalls, stopPreviewCalls, stopCalls,
                   ffmpegHandlers, videos, uploadCalls, captureEnded>>
    /\ UNCHANGED helperVars

\* the preview command's 'start' listener (lines 191-195)
PreviewStart(p) ==
    /\ previewProcs[p] = "spawned"
    /\ previewProcs' = [previewProcs EXCEPT ![p] = "running"]
    /\ captureState' = [captureState EXCEPT !.isPreviewing = TRUE]
    /\ UNCHANGED notifications
    /\ UNCHANGED <<ffmpegProcs, captureCalls, stopPreviewCalls, stopCalls,
                   ffmpegHandlers, videos, uploadCalls, captureEnded>>
    /\ UNCHANGED helperVars

\* stopPreview's check (line 213)
StopPreviewRejects == ~captureState.isPreviewing \/ captureState.previewProcess = 0

\* stopPreview() past its check, called by `caller` (0: the HTTP route, i: the
\* startCapture call i): previewStopping = true, 'end'/'error' listeners with a
\* fresh `resolved` flag added to the current previewProcess, SIGTERM, 1000 ms timer.
StopPreviewBegin(k, caller) ==
    [stopPreviewCalls EXCEPT ![k] = [st |-> "pending", proc |-> captureState.previewProcess,
                                     timer |-> TRUE, caller |-> caller, resets |-> 0]]

\* POST /api/preview/stop -> stopPreview()
StopPreview ==
    /\ ~StopPreviewRejects
    /\ FreeStopPreview # 0
    /\ MoreCommands
    /\ stopPreviewCalls' = StopPreviewBegin(FreeStopPreview, 0)
    /\ captureState' = [captureState EXCEPT !.previewStopping = TRUE]
    /\ UNCHANGED notifications
    /\ UNCHANGED <<previewProcs, ffmpegProcs, captureCalls, stopCalls,
                   ffmpegHandlers, videos, uploadCalls, captureEnded>>
    /\ UNCHANGED helperVars

\* the stopPreview calls whose listeners on subprocess p still have resolved = false
PendingStopPreviews(p) ==
    {k \in StopPreviews : stopPreviewCalls[k].st = "pending" /\ stopPreviewCalls[k].proc = p}

\* resolved = true for the calls in `hits`
StopPreviewsResolved(calls, hits) ==
    [k \in StopPreviews |-> IF k \in hits THEN [calls[k] EXCEPT !.st = "resolved", !.resets = @ + 1]
                            ELSE calls[k]]

\* resolve({success: true}) of the calls in `hits`: a startCapture awaiting one of them
\* (line 276) resumes and goes on to its checkDeviceAccess await (line 281)
StartCaptureResumed(hits) ==
    [i \in Captures |->
        IF captureCalls[i].pc = "stopPreview" /\ captureCalls[i].awaits \in hits
        THEN [captureCalls[i] EXCEPT !.pc = "device", !.awaits = 0]
        ELSE captureCalls[i]]

\* the state reset every resolving branch of stopPreview does (lines 226-227, 237-238,
\* 247-248, 259-260)
PreviewReset(cst) == [cst EXCEPT !.isPreviewing = FALSE, !.previewStopping = FALSE]

\* io.emit('previewStopped', {}) by each call in `hits` (lines 229, 240, 249)
PreviewStoppedEmitted(n, hits) ==
    [n EXCEPT !.previewStopped = [k \in StopPreviews |-> IF k \in hits THEN @[k] + 1 ELSE @[k]]]

\* the preview subprocess ends: only stopPreview's 'end' listeners exist (lines 223-231)
PreviewEnd(p) ==
    /\ previewProcs[p] = "running"
    /\ previewProcs' = [previewProcs EXCEPT ![p] = "exited"]
    /\ LET hits == PendingStopPreviews(p) IN
        /\ stopPreviewCalls' = StopPreviewsResolved(stopPreviewCalls, hits)
        /\ captureCalls' = StartCaptureResumed(hits)
        /\ captureState' = IF hits = {} THEN captureState ELSE PreviewReset(captureState)
        /\ notifications' = PreviewStoppedEmitted(notifications, hits)
    /\ UNCHANGED <<ffmpegProcs, stopCalls, ffmpegHandlers, videos, uploadCalls, captureEnded>>
    /\ UNCHANGED helperVars

\* startPreview's 'error' listener (lines 196-205), registered first
StartPreviewOnError(cst) ==
    IF ~cst.previewStopping THEN [cst EXCEPT !.isPreviewing = FALSE] ELSE cst

\* PreviewErrorSurfaced without the previewStopping test
PreviewErrorSurfacedAlways(cst) == TRUE

\* whether that listener emits 'previewError' (lines 198, 201)
PreviewErrorSurfaced(cst) == ~cst.previewStopping

\* the preview subprocess fails (at spawn or later): startPreview's 'error' listener,
\* then stopPreview's 'error' listeners (lines 232-252; both branches do the same reset)
PreviewError(p) ==
    /\ Alive(previewProcs[p])
    /\ previewProcs' = [previewProcs EXCEPT ![p] = "failed"]
    /\ LET hits == PendingStopPreviews(p)
           afterStart == StartPreviewOnError(captureState) IN
        /\ stopPreviewCalls' = StopPreviewsResolved(stopPreviewCalls, hits)
        /\ captureCalls' = StartCaptureResumed(hits)
        /\ captureState' = IF hits = {} THEN afterStart ELSE PreviewReset(afterStart)
        /\ notifications' =
              PreviewStoppedEmitted(IF PreviewErrorSurfaced(captureState)
                                    THEN Emit(notifications, "previewError", p)
                                    ELSE notifications, hits)
    /\ UNCHANGED <<ffmpegProcs, stopCalls, ffmpegHandlers, videos, uploadCalls, captureEnded>>
    /\ UNCHANGED helperVars

\* StopPreviewTimerHits without the `if (!resolved)` test
StopPreviewTimerHitsUnguarded(k) == {k}

\* `if (!resolved)` of the timer callback of stopPreview call k (line 257)
StopPreviewTimerHits(k) == IF stopPreviewCalls[k].st = "pending" THEN {k} ELSE {}

\* StopPreviewTimeout with a timer callback that leaves the call unresolved
StopPreviewTimeoutUnresolved(k) ==
    /\ stopPreviewCalls[k].timer
    /\ stopPreviewCalls' = [stopPreviewCalls EXCEPT ![k].timer = FALSE]
    /\ UNCHANGED notifications
    /\ UNCHANGED <<captureState, previewProcs, ffmpegProcs, captureCalls, stopCalls,
                   ffmpegHandlers, videos, uploadCalls, captureEnded>>
    /\ UNCHANGED helperVars

\* the 1000 ms timer of stopPreview call k fires (lines 256-263)
StopPreviewTimeout(k) ==
    /\ stopPreviewCalls[k].timer
    /\ LET hits == StopPreviewTimerHits(k) IN
        /\ stopPreviewCalls' = [StopPreviewsResolved(stopPreviewCalls, hits)
                                   EXCEPT ![k].timer = FALSE]
        /\ captureCalls' = StartCaptureResumed(hits)
        /\ captureState' = IF hits = {} THEN captureState ELSE PreviewReset(captureState)
    /\ UNCHANGED notifications
    /\ UNCHANGED <<previewProcs, ffmpegProcs, stopCalls, ffmpegHandlers, videos,
                   uploadCalls, captureEnded>>
    /\ UNCHANGED helperVars

\* ------------------------------------------------------------------ recording
\* startCapture's check (line 269)
StartCaptureRejects == captureState.isCapturing

\* the preview subprocess a startCapture call finds launched and not exited (0: none)
LivePreview ==
    IF captureState.previewProcess # 0 /\ Alive(previewProcs[captureState.previewProcess])
    THEN captureState.previewProcess ELSE 0

\* POST /api/capture/start -> startCapture(notes) up to its first I/O await: the check,
\* then `await stopPreview()` when isPreviewing (a stopPreview that returns 'Not
\* previewing' at once lets the call run on), then checkDeviceAccess.
StartCapture ==
    /\ ~StartCaptureRejects
    /\ FreeCapture # 0
    /\ MoreCommands
    /\ IF captureState.isPreviewing /\ ~StopPreviewRejects
       THEN /\ FreeStopPreview # 0
            /\ stopPreviewCalls' = StopPreviewBegin(FreeStopPreview, FreeCapture)
            /\ captureState' = [captureState EXCEPT !.previewStopping = TRUE]
            /\ captureCalls' = [captureCalls EXCEPT ![FreeCapture] =
                                  [pc |-> "stopPreview", awaits |-> FreeStopPreview,
                                   sawPreview |-> LivePreview, wasPreviewing |-> TRUE]]
       ELSE /\ captureCalls' = [captureCalls EXCEPT ![FreeCapture] =
                                  [pc |-> "device", awaits |-> 0, sawPreview |-> LivePreview,
                                   wasPreviewing |-> captureState.isPreviewing]]
            /\ UNCHANGED <<stopPreviewCalls, captureState>>
    /\ UNCHANGED notifications
    /\ UNCHANGED <<previewProcs, ffmpegProcs, stopCalls, ffmpegHandlers, videos,
                   uploadCalls, captureEnded>>
    /\ UNCHANGED helperVars

\* DeviceCheckDone with the Session record stored before the check's outcome is known
DeviceCheckDoneRecordFirst(i, ok) ==
    /\ captureCalls[i].pc = "device"
    /\ captureCalls' = [captureCalls EXCEPT ![i].pc = IF ok THEN "insert" ELSE "failed"]
    /\ videos' = [videos EXCEPT ![i] = [NoVideo EXCEPT !.status = "recording"]]
    /\ UNCHANGED notifications
    /\ UNCHANGED <<captureState, previewProcs, ffmpegProcs, stopPreviewCalls, stopCalls,
                   ffmpegHandlers, uploadCalls, captureEnded>>
    /\ UNCHANGED helperVars

\* `await checkDeviceAccess(...)` of startCapture call i completes (lines 280-285):
\* on failure the call throws; on success the record is built and insertOne awaited
DeviceCheckDone(i, ok) ==
    /\ captureCalls[i].pc = "device"
    /\ captureCalls' = [captureCalls EXCEPT ![i].pc = IF ok THEN "insert" ELSE "failed"]
    /\ UNCHANGED notifications
    /\ UNCHANGED <<captureState, previewProcs, ffmpegProcs, stopPreviewCalls, stopCalls,
                   ffmpegHandlers, videos, uploadCalls, captureEnded>>
    /\ UNCHANGED helperVars

\* the state update of startCapture (lines 310-313, 325)
CaptureLaunched(cst, i) ==
    [cst EXCEPT !.isCapturing = TRUE, !.currentRecording = i, !.stopRequested = FALSE,
                !.previewProcess = 0, !.ffmpegProcess = i]

\* `await videosCollection.insertOne(videoRecord)` of call i completes: the Session is
\* stored with status 'recording', the state is updated and the recording subprocess run
InsertDone(i) ==
    /\ captureCalls[i].pc = "insert"
    /\ captureCalls' = [captureCalls EXCEPT ![i].pc = "done"]
    /\ videos' = [videos EXCEPT ![i] = [NoVideo EXCEPT !.status = "recording"]]
    /\ captureState' = CaptureLaunched(captureState, i)
    /\ ffmpegProcs' = [ffmpegProcs EXCEPT ![i] = "spawned"]
    /\ UNCHANGED notifications
    /\ UNCHANGED <<previewProcs, stopPreviewCalls, stopCalls, ffmpegHandlers,
                   uploadCalls, captureEnded>>
    /\ UNCHANGED helperVars

\* the recording command's 'start' listener (lines 361-364): a notification only
FfmpegStart(i) ==
    /\ ffmpegProcs[i] = "spawned"
    /\ ffmpegProcs' = [ffmpegProcs EXCEPT ![i] = "running"]
    /\ UNCHANGED notifications
    /\ UNCHANGED <<captureState, previewProcs, captureCalls, stopPreviewCalls, stopCalls,
                   ffmpegHandlers, videos, uploadCalls, captureEnded>>
    /\ UNCHANGED helperVars

\* stopCapture's check (line 443)
StopCaptureRejects == ~captureState.isCapturing \/ captureState.ffmpegProcess = 0

\* POST /api/capture/stop up to the await of stopCapture(): recordingId is read from
\* currentRecording (line 621); stopCapture sets stopRequested, adds 'end'/'error'
\* listeners with a fresh `resolved` flag to ffmpegProcess, sends SIGTERM and starts
\* the 2000 ms timer
StopCapture ==
    /\ ~StopCaptureRejects
    /\ FreeStop # 0
    /\ MoreCommands
    /\ stopCalls' = [stopCalls EXCEPT ![FreeStop] =
                       [pc |-> "wait", recordingId |-> captureState.currentRecording,
                        proc |-> captureState.ffmpegProcess, timer |-> TRUE,
                        uploadOk |-> FALSE, settles |-> 0]]
    /\ captureState' = [captureState EXCEPT !.stopRequested = TRUE]
    /\ UNCHANGED notifications
    /\ UNCHANGED <<previewProcs, ffmpegProcs, captureCalls, stopPreviewCalls,
                   ffmpegHandlers, videos, uploadCalls, captureEnded>>
    /\ UNCHANGED helperVars

\* the stop calls whose listeners on recording subprocess i still have resolved = false
PendingStops(i) == {k \in Stops : stopCalls[k].pc = "wait" /\ stopCalls[k].proc = i}

\* stopCapture of the calls in `hits` resolves {success: true}: the route handler
\* resumes (line 625) and awaits the 'completed' update when it has a recordingId
StopsResolved(calls, hits) ==
    [k \in Stops |->
        IF k \in hits
        THEN [calls[k] EXCEPT !.pc = IF calls[k].recordingId # 0 THEN "update" ELSE "done",
                              !.settles = @ + 1]
        ELSE calls[k]]

\* stopCapture of the calls in `hits` rejects (line 472): the route answers 400
StopsRejected(calls, hits) ==
    [k \in Stops |-> IF k \in hits THEN [calls[k] EXCEPT !.pc = "failed", !.settles = @ + 1]
                     ELSE calls[k]]

\* a stop of recording i has been requested and its route has not finished
StopInProgressFor(i) ==
    \E k \in Stops : stopCalls[k].proc = i
                      /\ stopCalls[k].pc \in {"wait", "update", "upload", "uploadUpdate"}

\* the recording subprocess ends: startCapture's 'end' listener (lines 386-395) up to
\* its first await, then stopCapture's 'end' listeners (lines 454-459)
FfmpegEnd(i) ==
    /\ ffmpegProcs[i] = "running"
    /\ ffmpegProcs' = [ffmpegProcs EXCEPT ![i] = "exited"]
    /\ IF captureState.stopRequested
       THEN UNCHANGED <<captureState, ffmpegHandlers>>
       ELSE /\ captureState' = [captureState EXCEPT !.isCapturing = FALSE]
            /\ ffmpegHandlers' = [ffmpegHandlers EXCEPT ![i].pc = "endUpdate",
                                                      ![i].duringStop = StopInProgressFor(i)]
    /\ stopCalls' = StopsResolved(stopCalls, PendingStops(i))
    /\ UNCHANGED notifications
    /\ UNCHANGED <<previewProcs, captureCalls, stopPreviewCalls, videos, uploadCalls,
                   captureEnded>>
    /\ UNCHANGED helperVars

\* the recording subprocess fails: startCapture's 'error' listener (lines 365-376) up
\* to its first await, then stopCapture's 'error' listeners (lines 460-474).
\* msg15: err.message includes 'signal 15'; stderr15: stderr includes
\* 'Exiting normally, received signal 15'
FfmpegError(i, msg15, stderr15) ==
    /\ Alive(ffmpegProcs[i])
    /\ ffmpegProcs' = [ffmpegProcs EXCEPT ![i] = "failed"]
    /\ IF stderr15
       THEN UNCHANGED <<captureState, ffmpegHandlers>>
       ELSE /\ captureState' = [captureState EXCEPT !.isCapturing = FALSE]
            /\ ffmpegHandlers' = [ffmpegHandlers EXCEPT ![i].pc = "errUpdate",
                                                      ![i].duringStop = StopInProgressFor(i)]
    /\ stopCalls' = IF msg15 THEN StopsResolved(stopCalls, PendingStops(i))
                             ELSE StopsRejected(stopCalls, PendingStops(i))
    /\ UNCHANGED notifications
    /\ UNCHANGED <<previewProcs, captureCalls, stopPreviewCalls, videos, uploadCalls,
                   captureEnded>>
    /\ UNCHANGED helperVars

\* `if (!resolved)` of the timer callback of stop call k (line 481)
StopTimerHits(k) == IF stopCalls[k].pc = "wait" THEN {k} ELSE {}

\* the 2000 ms timer of stop call k fires (lines 480-486)
StopCaptureTimeout(k) ==
    /\ stopCalls[k].timer
    /\ LET hits == StopTimerHits(k) IN
        stopCalls' = [StopsResolved(stopCalls, hits) EXCEPT ![k].timer = FALSE]
    /\ UNCHANGED notifications
    /\ UNCHANGED <<captureState, previewProcs, ffmpegProcs, captureCalls, stopPreviewCalls,
                   ffmpegHandlers, videos, uploadCalls, captureEnded>>
    /\ UNCHANGED helperVars

\* ------------------------------------------------------------------ finalization
\* SetCompleted with endTime left out of the $set
SetCompletedWithoutEndTime(v) == [v EXCEPT !.status = "completed"]

\* $set: {status: 'completed', endTime, duration, updatedAt} (lines 402-407, 634-639)
SetCompleted(v) == [v EXCEPT !.status = "completed", !.endTimeSets = @ + 1]

\* SetError with the status left out of the $set
SetErrorWithoutStatus(v) == v

\* $set: {status: 'error', error: errorMsg, updatedAt} (line 380)
SetError(v) == [v EXCEPT !.status = "error"]

\* SetUploaded storing true whatever the outcome
SetUploadedAlways(v, ok) == [v EXCEPT !.uploadedToRemote = TRUE]

\* $set: {uploadedToRemote: ok, ...} (lines 418, 427, 541, 573, 652, 661)
SetUploaded(v, ok) == [v EXCEPT !.uploadedToRemote = ok]

\* the document with this recordingId (NoVideo: none)
FindOne(coll, recordingId) == IF recordingId \in Captures THEN coll[recordingId] ELSE NoVideo

\* updateOne({recordingId}, {$set: ...}): the matching document, if any, becomes `doc`
UpdateOne(coll, recordingId, doc) ==
    IF FindOne(coll, recordingId).status # "none"
    THEN [coll EXCEPT ![recordingId] = doc]
    ELSE coll

\* the state reset at the end of the stop route (lines 669-671)
StopReset(cst) ==
    [cst EXCEPT !.isCapturing = FALSE, !.currentRecording = 0, !.stopRequested = FALSE]

\* stop route k: the 'completed' update is done (lines 631-641); uploadFile is called
\* when currentRecording still has a filepath (lines 645-648), else the route goes
\* straight to 'captureEnded' and the state reset (lines 668-671)
StopUpdateDone(k) ==
    /\ stopCalls[k].pc = "update"
    /\ videos' = UpdateOne(videos, stopCalls[k].recordingId,
                           SetCompleted(FindOne(videos, stopCalls[k].recordingId)))
    /\ IF captureState.currentRecording # 0
       THEN /\ uploadCalls' = [uploadCalls EXCEPT ![stopCalls[k].recordingId] = @ + 1]
            /\ stopCalls' = [stopCalls EXCEPT ![k].pc = "upload"]
            /\ UNCHANGED <<captureState, captureEnded, notifications>>
       ELSE /\ captureEnded' = [captureEnded EXCEPT ![stopCalls[k].recordingId] = @ + 1]
            /\ notifications' = Logged(notifications, stopCalls[k].recordingId,
                                       <<"captureEnded">>)
            /\ captureState' = StopReset(captureState)
            /\ stopCalls' = [stopCalls EXCEPT ![k].pc = "done"]
            /\ UNCHANGED uploadCalls
    /\ UNCHANGED <<previewProcs, ffmpegProcs, captureCalls, stopPreviewCalls, ffmpegHandlers>>
    /\ UNCHANGED helperVars

\* stop route k: `await uploadFile(...)` settles (lines 648, 656); a successful remote
\* upload has stored uploadedToRemote itself (lines 538-543, 570-575); the route then
\* awaits its own update of the upload outcome
StopUploadDone(k, ok) ==
    /\ stopCalls[k].pc = "upload"
    /\ stopCalls' = [stopCalls EXCEPT ![k].pc = "uploadUpdate", ![k].uploadOk = ok]
    /\ videos' = IF ok /\ RemoteMethod(uploadMethod)
                 THEN UpdateOne(videos, stopCalls[k].recordingId,
                                SetUploaded(FindOne(videos, stopCalls[k].recordingId), TRUE))
                 ELSE videos
    /\ UNCHANGED notifications
    /\ UNCHANGED <<captureState, previewProcs, ffmpegProcs, captureCalls, stopPreviewCalls,
                   ffmpegHandlers, uploadCalls, captureEnded>>
    /\ UNCHANGED helperVars

\* stop route k: the upload outcome is stored (lines 650-653, 659-662), 'uploadComplete'
\* or 'uploadError' and 'captureEnded' are emitted and the state is reset (lines 668-671)
StopUploadUpdateDone(k) ==
    /\ stopCalls[k].pc = "uploadUpdate"
    /\ videos' = UpdateOne(videos, stopCalls[k].recordingId,
                           SetUploaded(FindOne(videos, stopCalls[k].recordingId),
                                       stopCalls[k].uploadOk))
    /\ captureEnded' = [captureEnded EXCEPT ![stopCalls[k].recordingId] = @ + 1]
    /\ captureState' = StopReset(captureState)
    /\ stopCalls' = [stopCalls EXCEPT ![k].pc = "done"]
    /\ notifications' = Logged(Emit(notifications,
                                    IF stopCalls[k].uploadOk THEN "uploadComplete"
                                                             ELSE "uploadError",
                                    stopCalls[k].recordingId),
                               stopCalls[k].recordingId,
                               UploadThenEnded(stopCalls[k].uploadOk))
    /\ UNCHANGED <<previewProcs, ffmpegProcs, captureCalls, stopPreviewCalls,
                   ffmpegHandlers, uploadCalls>>
    /\ UNCHANGED helperVars

\* startCapture's 'end' listener of recording i: the 'completed' update is done (lines
\* 398-410) and uploadFile is called (line 414)
EndUpdateDone(i) ==
    /\ ffmpegHandlers[i].pc = "endUpdate"
    /\ videos' = UpdateOne(videos, i, SetCompleted(videos[i]))
    /\ uploadCalls' = [uploadCalls EXCEPT ![i] = @ + 1]
    /\ ffmpegHandlers' = [ffmpegHandlers EXCEPT ![i].pc = "endUpload"]
    /\ UNCHANGED notifications
    /\ UNCHANGED <<captureState, previewProcs, ffmpegProcs, captureCalls, stopPreviewCalls,
                   stopCalls, captureEnded>>
    /\ UNCHANGED helperVars

\* startCapture's 'end' listener of recording i: uploadFile settles (lines 414, 422)
EndUploadDone(i, ok) ==
    /\ ffmpegHandlers[i].pc = "endUpload"
    /\ ffmpegHandlers' = [ffmpegHandlers EXCEPT ![i].pc = "endUploadUpdate", ![i].uploadOk = ok]
    /\ videos' = IF ok /\ RemoteMethod(uploadMethod)
                 THEN UpdateOne(videos, i, SetUploaded(videos[i], TRUE))
                 ELSE videos
    /\ UNCHANGED notifications
    /\ UNCHANGED <<captureState, previewProcs, ffmpegProcs, captureCalls, stopPreviewCalls,
                   stopCalls, uploadCalls, captureEnded>>
    /\ UNCHANGED helperVars

\* startCapture's 'end' listener of recording i: the upload outcome is stored,
\* 'captureEnded' is emitted and currentRecording cleared (lines 415-434)
EndUploadUpdateDone(i) ==
    /\ ffmpegHandlers[i].pc = "endUploadUpdate"
    /\ videos' = UpdateOne(videos, i, SetUploaded(videos[i], ffmpegHandlers[i].uploadOk))
    /\ captureEnded' = [captureEnded EXCEPT ![i] = @ + 1]
    /\ captureState' = [captureState EXCEPT !.currentRecording = 0]
    /\ ffmpegHandlers' = [ffmpegHandlers EXCEPT ![i].pc = "done"]
    /\ notifications' = Logged(Emit(notifications,
                                    IF ffmpegHandlers[i].uploadOk THEN "uploadComplete"
                                                                  ELSE "uploadError",
                                    i),
                               i, UploadThenEnded(ffmpegHandlers[i].uploadOk))
    /\ UNCHANGED <<previewProcs, ffmpegProcs, captureCalls, stopPreviewCalls, stopCalls,
                   uploadCalls>>
    /\ UNCHANGED helperVars

\* startCapture's 'error' listener of recording i: the 'error' update is done and
\* 'captureError' emitted (lines 377-384)
ErrorUpdateDone(i) ==
    /\ ffmpegHandlers[i].pc = "errUpdate"
    /\ videos' = UpdateOne(videos, i, SetError(videos[i]))
    /\ ffmpegHandlers' = [ffmpegHandlers EXCEPT ![i].pc = "done"]
    /\ notifications' = Emit(notifications, "captureError", i)
    /\ UNCHANGED <<captureState, previewProcs, ffmpegProcs, captureCalls, stopPreviewCalls,
                   stopCalls, uploadCalls, captureEnded>>
    /\ UNCHANGED helperVars

\* ------------------------------------------------------------------ helper functions
MoreHelperCalls == helperCalls < MaxHelperCalls

\* no document
NoDoc == [status |-> "none", notes |-> 0, updatedAt |-> 0, endTime |-> 0,
          uploadedToRemote |-> FALSE, location |-> <<>>]

\* the documents startCapture and the finalizations leave in the collection (lines
\* 291-304, 380, 402-407): any status, any notes, written before the run starts
StoredDocs ==
    {[NoDoc EXCEPT !.status = st, !.notes = n] :
        st \in {"recording", "completed", "error"}, n \in NoteTexts}

NoNotesCall == [pc |-> "none", recordingId |-> 0, notes |-> 0, date |-> 0, result |-> FALSE]

IdleDeviceCheck == [pc |-> "idle", maxRetries |-> 0, attempts |-> 0, failures |-> 0]

IdleUpload == [pc |-> "idle", recordingId |-> 0, location |-> <<>>, remoteOps |-> 0,
               mkdirFailed |-> FALSE, err |-> "none", sessionOpen |-> FALSE]

\* nothing has called a helper function
HelperIdle ==
    /\ now = 1
    /\ notesCalls = [c \in NotesCalls |-> NoNotesCall]
    /\ deviceCheck = IdleDeviceCheck
    /\ upload = IdleUpload
    /\ helperCalls = 0

\* the millisecond clock behind new Date() advances
Tick ==
    /\ now < MaxNow
    /\ now' = now + 1
    /\ UNCHANGED <<uploadMethod, videosCollection, notesCalls, deviceCheck, upload,
                   helperCalls>>
    /\ UNCHANGED coordinatorVars

\* -- updateNotes (lines 581-590)
FreeNotesCall == FreeIn(NotesCalls, {c \in NotesCalls : notesCalls[c].pc # "none"})

\* $set: {notes, updatedAt: new Date()} (line 585)
SetNotes(doc, notes, date) == [doc EXCEPT !.notes = notes, !.updatedAt = date]

\* NotesUpdateOne as an upsert
NotesUpsert(coll, recordingId, notes, date) ==
    [coll EXCEPT ![recordingId] =
        SetNotes(IF @.status = "none" THEN [NoDoc EXCEPT !.status = "recording"] ELSE @,
                 notes, date)]

\* videosCollection.updateOne({recordingId}, {$set: {notes, updatedAt}}) (lines 583-586):
\* the matching document, if there is one, gets the two fields; nothing is inserted
NotesUpdateOne(coll, recordingId, notes, date) ==
    IF coll[recordingId].status # "none"
    THEN [coll EXCEPT ![recordingId] = SetNotes(@, notes, date)]
    ELSE coll

\* result.modifiedCount of that updateOne: the documents the update changed
ModifiedCount(coll, recordingId, notes, date) ==
    IF NotesUpdateOne(coll, recordingId, notes, date) # coll THEN 1 ELSE 0

\* POST /api/capture/:recordingId/notes -> updateNotes(recordingId, notes) up to its
\* await: the $set document is built, with updatedAt read from the clock (line 585)
UpdateNotes(recordingId, notes) ==
    /\ MoreHelperCalls
    /\ FreeNotesCall # 0
    /\ notesCalls' = [notesCalls EXCEPT ![FreeNotesCall] =
                         [pc |-> "updateOne", recordingId |-> recordingId, notes |-> notes,
                          date |-> now, result |-> FALSE]]
    /\ helperCalls' = helperCalls + 1
    /\ UNCHANGED <<uploadMethod, now, videosCollection, deviceCheck, upload>>
    /\ UNCHANGED coordinatorVars

\* the awaited updateOne of updateNotes call c completes and the call returns
\* `result.modifiedCount > 0` (lines 583-587)
UpdateNotesDone(c) ==
    /\ notesCalls[c].pc = "updateOne"
    /\ videosCollection' = NotesUpdateOne(videosCollection, notesCalls[c].recordingId,
                                          notesCalls[c].notes, notesCalls[c].date)
    /\ notesCalls' = [notesCalls EXCEPT
                         ![c].pc = "done",
                         ![c].result = ModifiedCount(videosCollection,
                                                     notesCalls[c].recordingId,
                                                     notesCalls[c].notes,
                                                     notesCalls[c].date) > 0]
    /\ UNCHANGED <<uploadMethod, now, deviceCheck, upload, helperCalls>>
    /\ UNCHANGED coordinatorVars

\* -- checkDeviceAccess (lines 131-159)
DeviceCheckSettled == deviceCheck.pc \in {"idle", "resolved", "rejected"}

\* RetryAfter retrying once more
RetryAfterInclusive(attempts, maxRetries) == attempts <= maxRetries

\* `attempts < maxRetries` (line 143): whether a failed probe is retried
RetryAfter(attempts, maxRetries) == attempts < maxRetries

\* checkDeviceAccess(devicePath, maxRetries): attempts = 0, then the first tryAccess()
\* (lines 133-136, 156) up to fs.access
CheckDeviceAccess(maxRetries) ==
    /\ MoreHelperCalls
    /\ DeviceCheckSettled
    /\ deviceCheck' = [pc |-> "probing", maxRetries |-> maxRetries, attempts |-> 1,
                       failures |-> 0]
    /\ helperCalls' = helperCalls + 1
    /\ UNCHANGED <<uploadMethod, now, videosCollection, notesCalls, upload>>
    /\ UNCHANGED coordinatorVars

\* the callback of fs.access (lines 140-153)
AccessCallback(err) ==
    /\ deviceCheck.pc = "probing"
    /\ deviceCheck' =
          IF err
          THEN [deviceCheck EXCEPT
                  !.failures = @ + 1,
                  !.pc = IF RetryAfter(deviceCheck.attempts, deviceCheck.maxRetries)
                         THEN "backoff" ELSE "rejected"]
          ELSE [deviceCheck EXCEPT !.pc = "resolved"]
    /\ UNCHANGED <<uploadMethod, now, videosCollection, notesCalls, upload, helperCalls>>
    /\ UNCHANGED coordinatorVars

\* setTimeout(tryAccess, 500) fires: the next probe (lines 135-140, 145)
TryAccess ==
    /\ deviceCheck.pc = "backoff"
    /\ deviceCheck' = [deviceCheck EXCEPT !.pc = "probing", !.attempts = @ + 1]
    /\ UNCHANGED <<uploadMethod, now, videosCollection, notesCalls, upload, helperCalls>>
    /\ UNCHANGED coordinatorVars

\* -- uploadFile (lines 491-578)
\* path.join(UPLOADS_DIR, `${recordingId}.mp4`) (lines 288-289)
Filepath(recordingId) == <<"UPLOADS_DIR", recordingId>>

\* path.basename(filepath) (lines 506, 555)
Basename(filepath) == filepath[2]

\* `${SFTP_CONFIG.uploadDir}/${recordingId}/${filename}` (line 507)
RemotePath(filepath, recordingId) == <<"uploadDir", recordingId, Basename(filepath)>>

\* the local branch's result (line 499)
LocalLocation(filepath) == <<"file", filepath>>

\* `sftp://${SFTP_CONFIG.username}@${SFTP_CONFIG.host}${remotePath}` (line 535)
SftpLocation(filepath, recordingId) ==
    <<"sftp", "username", "host", RemotePath(filepath, recordingId)>>

\* result.Location of s3.upload for Key `${s3Folder}/${recordingId}/${filename}` (line 562)
S3Location(filepath, recordingId) ==
    <<"s3", "bucket", <<"s3Folder", recordingId, Basename(filepath)>>>>

UploadSettled == upload.pc \in {"idle", "done", "failed"}

\* the local branch of uploadFile (lines 496-500)
LocalUpload(recordingId) ==
    [IdleUpload EXCEPT !.pc = "done", !.recordingId = recordingId,
                       !.location = LocalLocation(Filepath(recordingId))]

\* uploadFile(filepath, recordingId) up to its first await (lines 491-501): the sftp
\* branch builds the client and connects (lines 505-516); the s3 branch reads the file
\* with readFileSync, which may throw, and starts the upload (lines 557-566)
UploadFile(recordingId, readOk) ==
    /\ MoreHelperCalls
    /\ UploadSettled
    /\ upload' =
          IF uploadMethod = "sftp"
          THEN [IdleUpload EXCEPT !.pc = "connect", !.recordingId = recordingId]
          ELSE IF uploadMethod = "s3"
          THEN IF readOk
               THEN [IdleUpload EXCEPT !.pc = "s3upload", !.recordingId = recordingId]
               ELSE [IdleUpload EXCEPT !.pc = "failed", !.recordingId = recordingId,
                                       !.err = "read"]
          ELSE LocalUpload(recordingId)
    /\ helperCalls' = helperCalls + 1
    /\ UNCHANGED <<uploadMethod, now, videosCollection, notesCalls, deviceCheck>>
    /\ UNCHANGED coordinatorVars

\* an awaited call of the upload throws: the catch rethrows (lines 546-549)
UploadThrows(u, stage) == [u EXCEPT !.pc = "failed", !.err = stage, !.remoteOps = @ + 1]

\* MkdirSettled with the failure rethrown
MkdirRethrown(u, ok) ==
    IF ok THEN [u EXCEPT !.pc = "put", !.remoteOps = @ + 1] ELSE UploadThrows(u, "mkdir")

\* `await sftp.mkdir(remoteDir, true)` inside its own try/catch (lines 521-527)
MkdirSettled(u, ok) == [u EXCEPT !.pc = "put", !.mkdirFailed = ~ok, !.remoteOps = @ + 1]

\* `await sftp.connect(...)` settles (lines 510-516)
SftpConnectDone(ok) ==
    /\ upload.pc = "connect"
    /\ upload' = IF ok THEN [upload EXCEPT !.pc = "mkdir", !.remoteOps = @ + 1,
                                            !.sessionOpen = TRUE]
                       ELSE UploadThrows(upload, "connect")
    /\ UNCHANGED <<uploadMethod, now, videosCollection, notesCalls, deviceCheck, helperCalls>>
    /\ UNCHANGED coordinatorVars

\* `await sftp.mkdir(...)` settles (lines 522-527)
SftpMkdirDone(ok) ==
    /\ upload.pc = "mkdir"
    /\ upload' = MkdirSettled(upload, ok)
    /\ UNCHANGED <<uploadMethod, now, videosCollection, notesCalls, deviceCheck, helperCalls>>
    /\ UNCHANGED coordinatorVars

\* `await sftp.put(filepath, remotePath)` settles (line 530)
SftpPutDone(ok) ==
    /\ upload.pc = "put"
    /\ upload' = IF ok THEN [upload EXCEPT !.pc = "end", !.remoteOps = @ + 1]
                       ELSE UploadThrows(upload, "put")
    /\ UNCHANGED <<uploadMethod, now, videosCollection, notesCalls, deviceCheck, helperCalls>>
    /\ UNCHANGED coordinatorVars

\* `await sftp.end()` settles (line 533); the location update is then awaited, its
\* updatedAt read from the clock (lines 535-542)
SftpEndDone(ok) ==
    /\ upload.pc = "end"
    /\ upload' = IF ok THEN [upload EXCEPT !.pc = "sftpUpdate", !.remoteOps = @ + 1,
                                            !.sessionOpen = FALSE]
                       ELSE UploadThrows(upload, "end")
    /\ UNCHANGED <<uploadMethod, now, videosCollection, notesCalls, deviceCheck, helperCalls>>
    /\ UNCHANGED coordinatorVars

\* $set: {sftpLocation | s3Location, uploadedToRemote: true, updatedAt} on the matching
\* document (lines 538-543, 570-575)
SetLocation(coll, recordingId, location, date) ==
    IF coll[recordingId].status # "none"
    THEN [coll EXCEPT ![recordingId].location = location,
                      ![recordingId].uploadedToRemote = TRUE,
                      ![recordingId].updatedAt = date]
    ELSE coll

\* the location update of uploadToSFTP completes and the location is returned (lines
\* 538-545)
SftpUpdateDone ==
    /\ upload.pc = "sftpUpdate"
    /\ videosCollection' = SetLocation(videosCollection, upload.recordingId,
                              SftpLocation(Filepath(upload.recordingId), upload.recordingId),
                              now)
    /\ upload' = [upload EXCEPT
                    !.pc = "done",
                    !.location = SftpLocation(Filepath(upload.recordingId),
                                              upload.recordingId)]
    /\ UNCHANGED <<uploadMethod, now, notesCalls, deviceCheck, helperCalls>>
    /\ UNCHANGED coordinatorVars

\* `await s3.upload(params).promise()` settles (line 566)
S3UploadDone(ok) ==
    /\ upload.pc = "s3upload"
    /\ upload' = IF ok THEN [upload EXCEPT !.pc = "s3Update", !.remoteOps = @ + 1]
                       ELSE UploadThrows(upload, "s3upload")
    /\ UNCHANGED <<uploadMethod, now, videosCollection, notesCalls, deviceCheck, helperCalls>>
    /\ UNCHANGED coordinatorVars

\* the location update of uploadToS3 completes and the result is returned (lines 570-577)
S3UpdateDone ==
    /\ upload.pc = "s3Update"
    /\ videosCollection' = SetLocation(videosCollection, upload.recordingId,
                              S3Location(Filepath(upload.recordingId), upload.recordingId),
                              now)
    /\ upload' = [upload EXCEPT
                    !.pc = "done",
                    !.location = S3Location(Filepath(upload.recordingId),
                                            upload.recordingId)]
    /\ UNCHANGED <<uploadMethod, now, notesCalls, deviceCheck, helperCalls>>
    /\ UNCHANGED coordinatorVars

\* ------------------------------------------------------------------ specification
\* the coordinator: the helper functions are not called on their own
Init ==
    /\ CoordinatorInit
    /\ uploadMethod \in UploadMethods
    /\ videosCollection = [r \in RecordingIds |-> NoDoc]
    /\ HelperIdle

Next ==
    \/ StartPreview
    \/ StopPreview
    \/ StartCapture
    \/ StopCapture
    \/ \E p \in Previews : PreviewStart(p)
    \/ \E p \in Previews : PreviewEnd(p)
    \/ \E p \in Previews : PreviewError(p)
    \/ \E k \in StopPreviews : StopPreviewTimeout(k)
    \/ \E i \in Captures, ok \in BOOLEAN : DeviceCheckDone(i, ok)
    \/ \E i \in Captures : InsertDone(i)
    \/ \E i \in Captures : FfmpegStart(i)
    \/ \E i \in Captures : FfmpegEnd(i)
    \/ \E i \in Captures, msg15 \in BOOLEAN, stderr15 \in BOOLEAN : FfmpegError(i, msg15, stderr15)
    \/ \E k \in Stops : StopCaptureTimeout(k)
    \/ \E k \in Stops : StopUpdateDone(k)
    \/ \E k \in Stops, ok \in UploadOutcomes(uploadMethod) : StopUploadDone(k, ok)
    \/ \E k \in Stops : StopUploadUpdateDone(k)
    \/ \E i \in Captures : EndUpdateDone(i)
    \/ \E i \in Captures, ok \in UploadOutcomes(uploadMethod) : EndUploadDone(i, ok)
    \/ \E i \in Captures : EndUploadUpdateDone(i)
    \/ \E i \in Captures : ErrorUpdateDone(i)

Spec == Init /\ [][Next]_vars

\* the timers are the event loop's: a started timer fires
LiveSpec ==
    /\ Spec
    /\ \A k \in StopPreviews : WF_vars(StopPreviewTimeout(k))
    /\ \A k \in Stops : WF_vars(StopCaptureTimeout(k))

\* the helper functions on their own, over every stored collection: the coordinator
\* stays at rest
HelperInit ==
    /\ CoordinatorInit
    /\ uploadMethod \in UploadMethods
    /\ videosCollection \in [RecordingIds -> StoredDocs \cup {NoDoc}]
    /\ HelperIdle

HelperNext ==
    \/ Tick
    \/ \E r \in RecordingIds, n \in NoteTexts : UpdateNotes(r, n)
    \/ \E c \in NotesCalls : UpdateNotesDone(c)
    \/ \E m \in 1..MaxRetries : CheckDeviceAccess(m)
    \/ \E err \in BOOLEAN : AccessCallback(err)
    \/ TryAccess
    \/ \E r \in RecordingIds, readOk \in BOOLEAN : UploadFile(r, readOk)
    \/ \E ok \in BOOLEAN : SftpConnectDone(ok)
    \/ \E ok \in BOOLEAN : SftpMkdirDone(ok)
    \/ \E ok \in BOOLEAN : SftpPutDone(ok)
    \/ \E ok \in BOOLEAN : SftpEndDone(ok)
    \/ SftpUpdateDone
    \/ \E ok \in BOOLEAN : S3UploadDone(ok)
    \/ S3UpdateDone

HelperSpec == HelperInit /\ [][HelperNext]_vars

\* the callback of fs.access is called and the retry timer fires
LiveHelperSpec ==
    /\ HelperSpec
    /\ WF_vars(\E err \in BOOLEAN : AccessCallback(err))
    /\ WF_vars(TryAccess)

\* ------------------------------------------------------------------ claims
RecordingSessions == {i \in Captures : videos[i].status = "recording"}

\* C1: at most one Session record has status 'recording' at any instant, over every
\* interleaving of commands and subprocess events.
C1_AtMostOneRecording == Cardinality(RecordingSessions) <= 1

RunningPreviews == {p \in Previews : previewProcs[p] = "running"}
RunningRecordings == {i \in Captures : ffmpegProcs[i] = "running"}

\* C2: at most one transcoder subprocess (preview or recording) has started and not
\* exited, in every reachable state.
C2_AtMostOneSubprocess == Cardinality(RunningPreviews) + Cardinality(RunningRecordings) <= 1

\* C3: isPreviewing and isCapturing are never both true.
C3_ModesExclusive == ~(captureState.isPreviewing /\ captureState.isCapturing)

\* the commands that have passed their state check and not yet made the state update
\* it guards: a startCapture before line 310, a startPreview before its 'start' listener
StartCapturesInFlight == {i \in Captures : captureCalls[i].pc \in {"stopPreview", "device", "insert"}}
StartPreviewsInFlight == {p \in Previews : previewProcs[p] = "spawned"}

\* C4: check and update are one atomic step: no command passes its state check while
\* another command is between its own check and its state update.
C4_CheckThenActAtomic ==
    Cardinality(StartCapturesInFlight) + Cardinality(StartPreviewsInFlight) <= 1

\* a subprocess launched and not yet stopped, or a stop still in progress
PreviewNotStopped(p) ==
    /\ Alive(previewProcs[p])
    /\ ~\E k \in StopPreviews : stopPreviewCalls[k].proc = p /\ stopPreviewCalls[k].st = "resolved"
RecordingNotStopped(i) ==
    /\ Alive(ffmpegProcs[i])
    /\ ~\E k \in Stops : stopCalls[k].proc = i /\ stopCalls[k].pc \notin {"none", "wait"}
StopInProgress ==
    \/ \E k \in StopPreviews : stopPreviewCalls[k].st = "pending"
    \/ \E k \in Stops : stopCalls[k].pc \in {"wait", "update", "upload", "uploadUpdate"}
ModeNotIdle ==
    \/ \E p \in Previews : PreviewNotStopped(p)
    \/ \E i \in Captures : RecordingNotStopped(i)
    \/ StopInProgress

PreviewLaunchStep == \E p \in Previews : previewProcs[p] = "none" /\ previewProcs'[p] # "none"

\* C5: StartPreview is refused (launches no subprocess) whenever the mode is not Idle:
\* a preview or recording subprocess launched and not yet stopped, or a stop in progress.
C5_StartPreviewOnlyWhenIdle == [][PreviewLaunchStep => ~ModeNotIdle]_vars

RecordingLaunchStep(i) == ffmpegProcs[i] = "none" /\ ffmpegProcs'[i] # "none"

\* the stopPreview cycles startCapture call i issued that have resolved
StopPreviewCyclesOf(i) ==
    {k \in StopPreviews : stopPreviewCalls[k].caller = i /\ stopPreviewCalls[k].st = "resolved"}

\* C6: a recording subprocess is never launched while isPreviewing is true, and a
\* StartCapture called while Previewing has had exactly one StopPreview resolve first.
C6_StopPreviewBeforeRecording ==
    [][\A i \in Captures :
         RecordingLaunchStep(i) =>
            /\ ~captureState.isPreviewing
            /\ captureCalls[i].wasPreviewing => Cardinality(StopPreviewCyclesOf(i)) = 1]_vars

\* C7: StartPreview accepted, then StartCapture (before or after the preview's 'start'):
\* one StopPreview cycle completes before the recording subprocess launches, and the
\* state is then Recording with isPreviewing false.
C7_PreviewThenCapture ==
    [][\A i \in Captures :
         (RecordingLaunchStep(i) /\ captureCalls[i].sawPreview # 0) =>
            /\ Cardinality(StopPreviewCyclesOf(i)) = 1
            /\ captureState'.isCapturing
            /\ ~captureState'.isPreviewing]_vars

\* C8: per Session the Upload Dispatcher is invoked at most once and 'captureEnded' is
\* emitted at most once; a stop route that finished successfully leaves the Session
\* 'completed' with exactly one upload and one 'captureEnded'.
C8_FinalizedOnce ==
    /\ \A i \in Captures : uploadCalls[i] <= 1 /\ captureEnded[i] <= 1
    /\ \A k \in Stops :
          (stopCalls[k].pc = "done" /\ stopCalls[k].recordingId # 0) =>
             /\ videos[stopCalls[k].recordingId].status = "completed"
             /\ uploadCalls[stopCalls[k].recordingId] = 1
             /\ captureEnded[stopCalls[k].recordingId] = 1

\* C9: the end timestamp is set exactly once, in the update that moves the status from
\* 'recording' to 'completed' or 'error'; every terminal Session has it.
C9_EndTimeSetOnce ==
    \A i \in Captures :
        /\ videos[i].status \in {"completed", "error"} => videos[i].endTimeSets = 1
        /\ videos[i].status \in {"none", "recording"} => videos[i].endTimeSets = 0

\* C10: every accepted StopPreview and StopCapture call eventually settles, whether or
\* not its subprocess ever emits 'end' or 'error'.
C10_StopsSettle ==
    /\ \A k \in StopPreviews :
          (stopPreviewCalls[k].st = "pending") ~> (stopPreviewCalls[k].st = "resolved")
    /\ \A k \in Stops : (stopCalls[k].pc = "wait") ~> (stopCalls[k].pc # "wait")

\* a stopPreview and a stopCapture call both resolved by their timers, the subprocesses
\* they signalled never having emitted 'end' or 'error'
C10_Witness ==
    /\ \E k \in StopPreviews :
          /\ stopPreviewCalls[k].st = "resolved"
          /\ Alive(previewProcs[stopPreviewCalls[k].proc])
    /\ \E k \in Stops :
          /\ stopCalls[k].pc \notin {"none", "wait"}
          /\ Alive(ffmpegProcs[stopCalls[k].proc])

\* C11: every resolved StopPreview call has emitted exactly one 'previewStopped',
\* whichever trigger resolved it ('end', 'error' or the timeout).
C11_PreviewStoppedOnce ==
    \A k \in StopPreviews :
        stopPreviewCalls[k].st = "resolved" => notifications.previewStopped[k] = 1

Exited(st) == st \in {"exited", "failed"}

\* C12: for one stop call at most one trigger does the state reset and resolves it;
\* triggers that fire later do nothing for that call.
C12_FirstTriggerWins ==
    /\ \A k \in StopPreviews :
          /\ stopPreviewCalls[k].resets <= 1
          /\ notifications.previewStopped[k] <= 1
    /\ \A k \in Stops : stopCalls[k].settles <= 1

\* a stopPreview call and a stop call for which both triggers have fired: the subprocess
\* has exited and the timer has run
C12_Witness ==
    /\ \E k \in StopPreviews :
          /\ stopPreviewCalls[k].st = "resolved" /\ ~stopPreviewCalls[k].timer
          /\ Exited(previewProcs[stopPreviewCalls[k].proc])
    /\ \E k \in Stops :
          /\ stopCalls[k].settles = 1 /\ ~stopCalls[k].timer
          /\ Exited(ffmpegProcs[stopCalls[k].proc])

\* C13: a recording-subprocess error delivered while a StopCapture is in progress never
\* produces 'captureError', whatever its message or stderr.
C13_NoCaptureErrorWhileStopping ==
    \A i \in Captures : notifications.captureError[i] > 0 => ~ffmpegHandlers[i].duringStop

\* C14: a preview-subprocess error delivered while previewStopping is true never emits
\* 'previewError'.
C14_PreviewErrorSwallowed ==
    [][\A p \in Previews :
         notifications'.previewError[p] > notifications.previewError[p]
            => ~captureState.previewStopping]_vars

\* a preview subprocess has failed and its error was swallowed
C14_Witness ==
    \E p \in Previews : previewProcs[p] = "failed" /\ notifications.previewError[p] = 0

PreviewErrorStep(p) == previewProcs[p] # "failed" /\ previewProcs'[p] = "failed"
RecordingErrorStep(i) == ffmpegProcs[i] # "failed" /\ ffmpegProcs'[i] = "failed"
NoStopPreviewInProgress == \A k \in StopPreviews : stopPreviewCalls[k].st # "pending"

\* C15: a subprocess error delivered while no intentional stop is in progress always
\* produces its error notification ('previewError' at once, 'captureError' through the
\* 'error' listener's update) and drops the mode back to Idle.
C15_ErrorSurfacedOutsideStop ==
    [][/\ \A p \in Previews :
             (PreviewErrorStep(p) /\ NoStopPreviewInProgress) =>
                /\ notifications'.previewError[p] = notifications.previewError[p] + 1
                /\ ~captureState'.isPreviewing
       /\ \A i \in Captures :
             (RecordingErrorStep(i) /\ ~StopInProgressFor(i)) =>
                /\ ffmpegHandlers'[i].pc = "errUpdate"
                /\ ~captureState'.isCapturing]_vars

NoStopFor(i) == \A k \in Stops : stopCalls[k].proc # i

\* the 'error' listener of recording i ran past its stderr test with no stop requested
AbnormalExit(i) ==
    /\ ffmpegProcs[i] = "failed"
    /\ ffmpegHandlers[i].pc \in {"errUpdate", "done"}
    /\ NoStopFor(i)

RecordingEndStep(i) == ffmpegProcs[i] # "exited" /\ ffmpegProcs'[i] = "exited"

\* C17: when the recording subprocess ends with stopRequested false, the 'end' listener
\* acts as an implicit stop: isCapturing is cleared at once; its first update stores
\* status 'completed' with the end time and the upload is invoked; once the upload has
\* settled its outcome is stored, 'uploadComplete' or 'uploadError' is emitted
\* accordingly and 'captureEnded' is emitted.
C17_ImplicitStop ==
    [][\A i \in Captures :
         /\ (RecordingEndStep(i) /\ ~captureState.stopRequested) =>
               /\ ffmpegHandlers'[i].pc = "endUpdate"
               /\ ~captureState'.isCapturing
         /\ (ffmpegHandlers[i].pc = "endUpdate" /\ ffmpegHandlers'[i].pc # "endUpdate") =>
               /\ ffmpegHandlers'[i].pc = "endUpload"
               /\ videos'[i].status = "completed"
               /\ videos'[i].endTimeSets = videos[i].endTimeSets + 1
               /\ uploadCalls'[i] = uploadCalls[i] + 1
         /\ (ffmpegHandlers[i].pc = "endUpload" /\ ffmpegHandlers'[i].pc # "endUpload") =>
               ffmpegHandlers'[i].pc = "endUploadUpdate"
         /\ (ffmpegHandlers[i].pc = "endUploadUpdate"
               /\ ffmpegHandlers'[i].pc # "endUploadUpdate") =>
               /\ ffmpegHandlers'[i].pc = "done"
               /\ videos'[i].uploadedToRemote = ffmpegHandlers[i].uploadOk
               /\ notifications'.uploadComplete[i] = notifications.uploadComplete[i]
                      + (IF ffmpegHandlers[i].uploadOk THEN 1 ELSE 0)
               /\ notifications'.uploadError[i] = notifications.uploadError[i]
                      + (IF ffmpegHandlers[i].uploadOk THEN 0 ELSE 1)
               /\ captureEnded'[i] = captureEnded[i] + 1]_vars

\* a recording nobody stopped has ended and its 'end' listener has run to completion
C17_Witness ==
    \E i \in Captures :
        /\ ffmpegProcs[i] = "exited" /\ NoStopFor(i)
        /\ ffmpegHandlers[i].pc = "done"
        /\ videos[i].status = "completed"
        /\ captureEnded[i] = 1

StopRouteDoneStep(k) == stopCalls[k].pc \notin {"done", "failed"} /\ stopCalls'[k].pc = "done"

\* C18: when a stop route whose stopCapture resolved successfully finishes, the
\* coordinator is Idle (isCapturing false, currentRecording null, stopRequested false).
C18_IdleAfterStop ==
    [][\A k \in Stops :
         StopRouteDoneStep(k) =>
            /\ ~captureState'.isCapturing
            /\ captureState'.currentRecording = 0
            /\ ~captureState'.stopRequested]_vars

StopCaptureAcceptStep == \E k \in Stops : stopCalls[k].pc = "none" /\ stopCalls'[k].pc # "none"

\* C19: StopCapture is refused whenever the mode is not Recording, also while an earlier
\* StopCapture is still waiting for termination or finalizing.
C19_StopCaptureOnlyWhenRecording ==
    [][StopCaptureAcceptStep =>
         /\ captureState.isCapturing
         /\ ~\E i \in Captures : StopInProgressFor(i)]_vars

StopPreviewAcceptStep ==
    \E k \in StopPreviews : stopPreviewCalls[k].st = "none" /\ stopPreviewCalls'[k].st # "none"

\* C20: StopPreview does nothing when the mode is not Previewing: Idle, Recording, or an
\* earlier StopPreview still in progress.
C20_StopPreviewOnlyWhenPreviewing ==
    [][StopPreviewAcceptStep =>
         /\ captureState.isPreviewing
         /\ ~captureState.isCapturing
         /\ NoStopPreviewInProgress]_vars

DeviceCheckFailStep(i) == captureCalls[i].pc = "device" /\ captureCalls'[i].pc = "failed"

\* C21: a startCapture call whose device check failed has stored no Session record and
\* launched no recording subprocess, and the failing step leaves isCapturing as it was.
C21_DeviceCheckFailure ==
    [][\A i \in Captures :
         /\ captureCalls'[i].pc = "failed" =>
               /\ videos'[i].status = "none"
               /\ ffmpegProcs'[i] = "none"
               /\ ffmpegHandlers'[i].pc = "none"
         /\ DeviceCheckFailStep(i) =>
               captureState'.isCapturing = captureState.isCapturing]_vars

\* a device check has failed while another startCapture call went through
C21_Witness ==
    \E i, j \in Captures :
        /\ captureCalls[i].pc = "failed"
        /\ captureCalls[j].pc = "done" /\ videos[j].status # "none"

\* C22: a startCapture call made while Previewing whose device check fails leaves the
\* mode Previewing, as it was before the call.
C22_DeviceCheckFailureKeepsPreview ==
    [][\A i \in Captures :
         (DeviceCheckFailStep(i) /\ captureCalls[i].wasPreviewing) =>
            captureState'.isPreviewing]_vars

\* C23: while the stop route's upload of the previous Session is in flight a new
\* StartCapture is accepted.
C23_StartCaptureDuringUpload ==
    \A k \in Stops : stopCalls[k].pc = "upload" => ~StartCaptureRejects

StopUploadFailedStep(k) ==
    /\ stopCalls[k].pc = "uploadUpdate" /\ stopCalls'[k].pc # "uploadUpdate"
    /\ ~stopCalls[k].uploadOk

EndUploadFailedStep(i) ==
    /\ ffmpegHandlers[i].pc = "endUploadUpdate" /\ ffmpegHandlers'[i].pc # "endUploadUpdate"
    /\ ~ffmpegHandlers[i].uploadOk

\* C24: after a failed upload the finalization stores uploadedToRemote false, emits
\* 'uploadError' and 'captureEnded', calls the upload no second time and leaves the
\* Session's status alone; the stop route then resets isCapturing, the 'end' listener
\* (which cleared it when 'end' was delivered) leaves it alone.
C24_UploadFailure ==
    [][/\ \A k \in Stops :
             StopUploadFailedStep(k) =>
                /\ stopCalls'[k].pc = "done"
                /\ ~videos'[stopCalls[k].recordingId].uploadedToRemote
                /\ videos'[stopCalls[k].recordingId].status
                      = videos[stopCalls[k].recordingId].status
                /\ notifications'.uploadError[stopCalls[k].recordingId]
                      = notifications.uploadError[stopCalls[k].recordingId] + 1
                /\ notifications'.uploadComplete = notifications.uploadComplete
                /\ captureEnded'[stopCalls[k].recordingId]
                      = captureEnded[stopCalls[k].recordingId] + 1
                /\ uploadCalls' = uploadCalls
                /\ ~captureState'.isCapturing
       /\ \A i \in Captures :
             EndUploadFailedStep(i) =>
                /\ ffmpegHandlers'[i].pc = "done"
                /\ ~videos'[i].uploadedToRemote
                /\ videos'[i].status = videos[i].status
                /\ notifications'.uploadError[i] = notifications.uploadError[i] + 1
                /\ notifications'.uploadComplete = notifications.uploadComplete
                /\ captureEnded'[i] = captureEnded[i] + 1
                /\ uploadCalls' = uploadCalls
                /\ captureState'.isCapturing = captureState.isCapturing]_vars

\* a stop route and an 'end' listener have each finished after a failed upload
C24_Witness ==
    /\ \E k \in Stops :
          /\ stopCalls[k].pc = "done" /\ stopCalls[k].recordingId # 0
          /\ notifications.uploadError[stopCalls[k].recordingId] = 1
          /\ videos[stopCalls[k].recordingId].status = "completed"
          /\ ~captureState.isCapturing
    /\ \E i \in Captures :
          /\ ffmpegHandlers[i].pc = "done" /\ ffmpegProcs[i] = "exited"
          /\ ~ffmpegHandlers[i].uploadOk /\ notifications.uploadError[i] = 1

\* C30: the 'end' listener registered by startCapture never starts finalizing a Session
\* whose subprocess a StopCapture was requested for.
C30_EndListenerLeavesStoppedSession ==
    \A i \in Captures :
        (ffmpegProcs[i] = "exited" /\ ffmpegHandlers[i].pc # "none") => NoStopFor(i)

NotesReturnStep(c) == notesCalls[c].pc = "updateOne" /\ notesCalls'[c].pc = "done"

\* C25: an updateNotes call whose recordingId matches no document returns false and
\* leaves the collection as it was.
C25_NotesOfUnknownSession ==
    [][\A c \in NotesCalls :
         (NotesReturnStep(c) /\ videosCollection[notesCalls[c].recordingId].status = "none") =>
            /\ ~notesCalls'[c].result
            /\ videosCollection' = videosCollection]_vars

C25_Witness ==
    \E c \in NotesCalls :
        /\ notesCalls[c].pc = "done" /\ ~notesCalls[c].result
        /\ videosCollection[notesCalls[c].recordingId].status = "none"

\* C26: an updateNotes call on an existing Session returns true, in every status.
C26_NotesOfExistingSession ==
    [][\A c \in NotesCalls :
         (NotesReturnStep(c) /\ videosCollection[notesCalls[c].recordingId].status # "none") =>
            notesCalls'[c].result]_vars

DeviceCheckBusy == deviceCheck.pc \in {"probing", "backoff"}

\* C27: checkDeviceAccess makes at most maxRetries probes, resolves at the first probe
\* that succeeds, rejects exactly when maxRetries probes in a row have failed, and
\* every invocation settles.
C27_CheckAccess ==
    /\ [](deviceCheck.pc # "idle" =>
            /\ deviceCheck.attempts <= deviceCheck.maxRetries
            /\ deviceCheck.pc \in {"probing", "resolved"} =>
                  deviceCheck.failures = deviceCheck.attempts - 1
            /\ deviceCheck.pc \in {"backoff", "rejected"} =>
                  deviceCheck.failures = deviceCheck.attempts
            /\ (deviceCheck.pc = "rejected") = (deviceCheck.failures = deviceCheck.maxRetries))
    /\ (DeviceCheckBusy ~> DeviceCheckSettled)

\* a check called with the default maxRetries was rejected after three failed probes
C27_Witness ==
    /\ deviceCheck.pc = "rejected"
    /\ deviceCheck.maxRetries = 3 /\ deviceCheck.attempts = 3 /\ deviceCheck.failures = 3

\* C28: with UPLOAD_METHOD neither 'sftp' nor 's3' the upload step of a finalization
\* succeeds and the finalized Session has uploadedToRemote true.
C28_LocalOnlyUploaded ==
    uploadMethod = "local" =>
        /\ \A k \in Stops :
              (stopCalls[k].pc = "done" /\ stopCalls[k].recordingId # 0) =>
                 videos[stopCalls[k].recordingId].uploadedToRemote
        /\ \A i \in Captures :
              (ffmpegHandlers[i].pc = "done" /\ ffmpegProcs[i] = "exited") =>
                 videos[i].uploadedToRemote

\* C29: in uploadToSFTP a failed mkdir lets the transfer go on; a failed connect, put or
\* end makes the upload fail with no location returned and without writing to the
\* collection; on success the location names the remote path of the artifact.
C29_SftpUpload ==
    [][uploadMethod = "sftp" =>
         /\ upload'.mkdirFailed => upload'.pc \in {"put", "end", "sftpUpdate", "done", "failed"}
         /\ upload'.err # "none" => upload'.pc = "failed"
         /\ upload'.pc = "failed" =>
               /\ upload'.err \in {"connect", "put", "end"}
               /\ upload'.location = <<>>
               /\ upload.pc # "failed" => videosCollection' = videosCollection
         /\ upload'.pc = "done" =>
               upload'.location[4]
                  = RemotePath(Filepath(upload'.recordingId), upload'.recordingId)]_vars

\* an upload succeeded although its mkdir failed
C29_Witness ==
    /\ uploadMethod = "sftp"
    /\ upload.pc = "done" /\ upload.mkdirFailed
    /\ videosCollection[upload.recordingId].uploadedToRemote

UploadEvents == {"uploadComplete", "uploadError"}

\* C31: in every finalization the Session is stored 'completed' when uploadFile is
\* called, and an 'uploadComplete' or 'uploadError' about a Session is followed at
\* once by that finalization's 'captureEnded', never preceded by it.
C31_FinalizationOrder ==
    [][\A i \in Captures :
         /\ uploadCalls'[i] > uploadCalls[i] => videos'[i].status = "completed"
         /\ \A j \in 1..Len(notifications'.log[i]) :
               notifications'.log[i][j] \in UploadEvents =>
                  /\ j < Len(notifications'.log[i])
                  /\ notifications'.log[i][j + 1] = "captureEnded"]_vars

\* a stop route and an 'end' listener have each finalized a Session with an upload
C31_Witness ==
    /\ \E k \in Stops :
          /\ stopCalls[k].pc = "done" /\ stopCalls[k].recordingId # 0
          /\ Len(notifications.log[stopCalls[k].recordingId]) = 2
          /\ uploadCalls[stopCalls[k].recordingId] = 1
    /\ \E i \in Captures :
          /\ ffmpegHandlers[i].pc = "done" /\ ffmpegProcs[i] = "exited" /\ NoStopFor(i)
          /\ Len(notifications.log[i]) = 2

\* C32: when a step has emitted 'captureEnded' no recording is in progress, so the
\* StartPreview the client then issues is accepted.
C32_IdleAtCaptureEnded ==
    [][(\E i \in Captures : captureEnded'[i] > captureEnded[i]) =>
          ~captureState'.isCapturing]_vars

TimedOutStopOf(i) ==
    \E k \in Stops : stopCalls[k].proc = i /\ stopCalls[k].pc \notin {"none", "wait"}

TimedOutStopPreviewOf(p) ==
    \E k \in StopPreviews : stopPreviewCalls[k].proc = p /\ stopPreviewCalls[k].st = "resolved"

\* C33: an 'end' or 'error' of a subprocess whose stop call has already resolved, and
\* the completion of an earlier Session's finalization, leave isPreviewing, isCapturing
\* and currentRecording alone once a later preview or recording has been started.
C33_LateEventsLeaveLaterSession ==
    [][/\ \A p \in Previews :
             (/\ previewProcs'[p] # previewProcs[p] /\ Exited(previewProcs'[p])
              /\ TimedOutStopPreviewOf(p)
              /\ captureState.previewProcess \notin {0, p}) =>
                captureState'.isPreviewing = captureState.isPreviewing
       /\ \A i \in Captures :
             (/\ ffmpegProcs'[i] # ffmpegProcs[i] /\ Exited(ffmpegProcs'[i])
              /\ TimedOutStopOf(i)
              /\ captureState.ffmpegProcess \notin {0, i}) =>
                captureState'.isCapturing = captureState.isCapturing
       /\ \A i \in Captures :
             (/\ ffmpegHandlers[i].pc # "done" /\ ffmpegHandlers'[i].pc = "done"
              /\ captureState.currentRecording \notin {0, i}) =>
                captureState'.currentRecording = captureState.currentRecording]_vars

\* C34: a Session's status only goes from 'recording' to 'completed' or 'error', and
\* never changes once it is 'completed' or 'error'.
C34_StatusMonotone ==
    [][\A i \in Captures :
         videos'[i].status # videos[i].status =>
            \/ videos[i].status = "none" /\ videos'[i].status = "recording"
            \/ videos[i].status = "recording" /\ videos'[i].status \in {"completed", "error"}]_vars

\* C35: whenever isCapturing is true, currentRecording is not null.
C35_CurrentRecordingWhileCapturing ==
    captureState.isCapturing => captureState.currentRecording # 0

\* something is still running that will write the status of Session i
FinalizationPending(i) ==
    \/ ffmpegHandlers[i].pc \in {"endUpdate", "errUpdate"}
    \/ \E k \in Stops : stopCalls[k].recordingId = i /\ stopCalls[k].pc \in {"wait", "update"}

\* C36: a Session whose subprocess has exited does not stay 'recording': either it has
\* left that status or a finalization that will write it is still running.
C36_SessionLeavesRecording ==
    \A i \in Captures :
        (Exited(ffmpegProcs[i]) /\ videos[i].status = "recording") => FinalizationPending(i)

\* C37: no 'previewError' is emitted for a preview subprocess that a StopPreview was
\* requested for.
C37_NoPreviewErrorAfterStop ==
    [][\A p \in Previews :
         notifications'.previewError[p] > notifications.previewError[p] =>
            \A k \in StopPreviews : stopPreviewCalls[k].proc # p]_vars

\* C38: isPreviewing true with no stopPreview in progress implies that the preview
\* subprocess is alive.
C38_PreviewingImpliesAlive ==
    (captureState.isPreviewing /\ NoStopPreviewInProgress) => LivePreview # 0

\* C39: once uploadToSFTP has returned or thrown, the SFTP session it opened is closed.
C39_SftpSessionClosed ==
    upload.pc \in {"done", "failed"} => ~upload.sessionOpen

====
